---- MODULE Spec2Model ----
(***************************************************************************)
(* CryptoCore AES (src/src/aes.c, src/src/general.c): the capability probe *)
(* that sets the process-wide hardware flag, the three key schedule        *)
(* generators, the block transforms and the self test.                     *)
(*                                                                         *)
(* A __m128i value and a 16-byte block are sequences of 16 bytes in memory *)
(* order (element 1 is the byte at the lowest address).  A schedule buffer *)
(* is a sequence of bytes; round key i occupies bytes 16*i+1 .. 16*i+16.   *)
(***************************************************************************)
EXTENDS Integers, Sequences, FiniteSets, TLC

(* ------------------------------ bytes ---------------------------------- *)

Byte == 0..255

\* The value e, with v computed first: TLC computes operator arguments only
\* when they are used, and a long chain of pending ones exhausts its stack.
Strict(v, e) == IF v = v THEN e ELSE e

\* The tuple <<F(0), ..., F(15)>>, and a table of F over the bytes, indexed by
\* high then low nibble (tuples are computed once, when first used).
T16(F(_)) ==
  << F(0), F(1), F(2),  F(3),  F(4),  F(5),  F(6),  F(7),
     F(8), F(9), F(10), F(11), F(12), F(13), F(14), F(15) >>
ByteTable(F(_)) == T16(LAMBDA h : T16(LAMBDA l : F(16 * h + l)))
Lookup(T, b) == T[(b \div 16) + 1][(b % 16) + 1]

\* The 16-byte value whose byte i (1..16) is F(i).
V16(F(_)) ==
  << F(1), F(2),  F(3),  F(4),  F(5),  F(6),  F(7),  F(8),
     F(9), F(10), F(11), F(12), F(13), F(14), F(15), F(16) >>

\* XOR of two 4-bit values, bit by bit.
XorNibble(a, b) ==
    ((a + b) % 2)
  + (((a \div 2) + (b \div 2)) % 2) * 2
  + (((a \div 4) + (b \div 4)) % 2) * 4
  + (((a \div 8) + (b \div 8)) % 2) * 8
\* The table of XorNibble: Xor4[x + 1][y + 1] = XorNibble(x, y).
Xor4 ==
  <<
     << 0,  1,  2,  3,  4,  5,  6,  7,  8,  9, 10, 11, 12, 13, 14, 15>>,
     << 1,  0,  3,  2,  5,  4,  7,  6,  9,  8, 11, 10, 13, 12, 15, 14>>,
     << 2,  3,  0,  1,  6,  7,  4,  5, 10, 11,  8,  9, 14, 15, 12, 13>>,
     << 3,  2,  1,  0,  7,  6,  5,  4, 11, 10,  9,  8, 15, 14, 13, 12>>,
     << 4,  5,  6,  7,  0,  1,  2,  3, 12, 13, 14, 15,  8,  9, 10, 11>>,
     << 5,  4,  7,  6,  1,  0,  3,  2, 13, 12, 15, 14,  9,  8, 11, 10>>,
     << 6,  7,  4,  5,  2,  3,  0,  1, 14, 15, 12, 13, 10, 11,  8,  9>>,
     << 7,  6,  5,  4,  3,  2,  1,  0, 15, 14, 13, 12, 11, 10,  9,  8>>,
     << 8,  9, 10, 11, 12, 13, 14, 15,  0,  1,  2,  3,  4,  5,  6,  7>>,
     << 9,  8, 11, 10, 13, 12, 15, 14,  1,  0,  3,  2,  5,  4,  7,  6>>,
     <<10, 11,  8,  9, 14, 15, 12, 13,  2,  3,  0,  1,  6,  7,  4,  5>>,
     <<11, 10,  9,  8, 15, 14, 13, 12,  3,  2,  1,  0,  7,  6,  5,  4>>,
     <<12, 13, 14, 15,  8,  9, 10, 11,  4,  5,  6,  7,  0,  1,  2,  3>>,
     <<13, 12, 15, 14,  9,  8, 11, 10,  5,  4,  7,  6,  1,  0,  3,  2>>,
     <<14, 15, 12, 13, 10, 11,  8,  9,  6,  7,  4,  5,  2,  3,  0,  1>>,
     <<15, 14, 13, 12, 11, 10,  9,  8,  7,  6,  5,  4,  3,  2,  1,  0>> >>

\* uint8_t ^ uint8_t
XorByte(a, b) ==
  Xor4[(a \div 16) + 1][(b \div 16) + 1] * 16 + Xor4[(a % 16) + 1][(b % 16) + 1]

Sbox ==
  <<
    99, 124, 119, 123, 242, 107, 111, 197, 48, 1, 103, 43, 254, 215, 171, 118,
    202, 130, 201, 125, 250, 89, 71, 240, 173, 212, 162, 175, 156, 164, 114, 192,
    183, 253, 147, 38, 54, 63, 247, 204, 52, 165, 229, 241, 113, 216, 49, 21,
    4, 199, 35, 195, 24, 150, 5, 154, 7, 18, 128, 226, 235, 39, 178, 117,
    9, 131, 44, 26, 27, 110, 90, 160, 82, 59, 214, 179, 41, 227, 47, 132,
    83, 209, 0, 237, 32, 252, 177, 91, 106, 203, 190, 57, 74, 76, 88, 207,
    208, 239, 170, 251, 67, 77, 51, 133, 69, 249, 2, 127, 80, 60, 159, 168,
    81, 163, 64, 143, 146, 157, 56, 245, 188, 182, 218, 33, 16, 255, 243, 210,
    205, 12, 19, 236, 95, 151, 68, 23, 196, 167, 126, 61, 100, 93, 25, 115,
    96, 129, 79, 220, 34, 42, 144, 136, 70, 238, 184, 20, 222, 94, 11, 219,
    224, 50, 58, 10, 73, 6, 36, 92, 194, 211, 172, 98, 145, 149, 228, 121,
    231, 200, 55, 109, 141, 213, 78, 169, 108, 86, 244, 234, 101, 122, 174, 8,
    186, 120, 37, 46, 28, 166, 180, 198, 232, 221, 116, 31, 75, 189, 139, 138,
    112, 62, 181, 102, 72, 3, 246, 14, 97, 53, 87, 185, 134, 193, 29, 158,
    225, 248, 152, 17, 105, 217, 142, 148, 155, 30, 135, 233, 206, 85, 40, 223,
    140, 161, 137, 13, 191, 230, 66, 104, 65, 153, 45, 15, 176, 84, 187, 22 >>

InvSbox ==
  <<
    82, 9, 106, 213, 48, 54, 165, 56, 191, 64, 163, 158, 129, 243, 215, 251,
    124, 227, 57, 130, 155, 47, 255, 135, 52, 142, 67, 68, 196, 222, 233, 203,
    84, 123, 148, 50, 166, 194, 35, 61, 238, 76, 149, 11, 66, 250, 195, 78,
    8, 46, 161, 102, 40, 217, 36, 178, 118, 91, 162, 73, 109, 139, 209, 37,
    114, 248, 246, 100, 134, 104, 152, 22, 212, 164, 92, 204, 93, 101, 182, 146,
    108, 112, 72, 80, 253, 237, 185, 218, 94, 21, 70, 87, 167, 141, 157, 132,
    144, 216, 171, 0, 140, 188, 211, 10, 247, 228, 88, 5, 184, 179, 69, 6,
    208, 44, 30, 143, 202, 63, 15, 2, 193, 175, 189, 3, 1, 19, 138, 107,
    58, 145, 17, 65, 79, 103, 220, 234, 151, 242, 207, 206, 240, 180, 230, 115,
    150, 172, 116, 34, 231, 173, 53, 133, 226, 249, 55, 232, 28, 117, 223, 110,
    71, 241, 26, 113, 29, 41, 197, 137, 111, 183, 98, 14, 170, 24, 190, 27,
    252, 86, 62, 75, 198, 210, 121, 32, 154, 219, 192, 254, 120, 205, 90, 244,
    31, 221, 168, 51, 136, 7, 199, 49, 177, 18, 16, 89, 39, 128, 236, 95,
    96, 81, 127, 169, 25, 181, 74, 13, 45, 229, 122, 159, 147, 201, 156, 239,
    160, 224, 59, 77, 174, 42, 245, 176, 200, 235, 187, 60, 131, 83, 153, 97,
    23, 43, 4, 126, 186, 119, 214, 38, 225, 105, 20, 99, 85, 33, 12, 125 >>

(* ------------------- the SSE2 / AES-NI operations used ------------------ *)

\* Multiplication by x in GF(2^8) modulo x^8 + x^4 + x^3 + x + 1.
XTime(b) == IF b >= 128 THEN XorByte((b * 2) % 256, 27) ELSE b * 2

Mul2  == ByteTable(XTime)
Mul4  == ByteTable(LAMBDA b : XTime(XTime(b)))
Mul8  == ByteTable(LAMBDA b : XTime(XTime(XTime(b))))
Mul3  == ByteTable(LAMBDA b : XorByte(Lookup(Mul2, b), b))
Mul9  == ByteTable(LAMBDA b : XorByte(Lookup(Mul8, b), b))
Mul11 == ByteTable(LAMBDA b : XorByte(XorByte(Lookup(Mul8, b), Lookup(Mul2, b)), b))
Mul13 == ByteTable(LAMBDA b : XorByte(XorByte(Lookup(Mul8, b), Lookup(Mul4, b)), b))
Mul14 == ByteTable(LAMBDA b : XorByte(XorByte(Lookup(Mul8, b), Lookup(Mul4, b)),
                                      Lookup(Mul2, b)))

Xor4B(a, b, c, d) == XorByte(XorByte(a, b), XorByte(c, d))

\* Index (1..16) of the byte in row r, column c of the state.
At(r, c) == 4 * c + r + 1

SubBytes(m)    == V16(LAMBDA i : Sbox[m[i] + 1])
InvSubBytes(m) == V16(LAMBDA i : InvSbox[m[i] + 1])

ShiftRows(m) ==
  V16(LAMBDA i : m[At((i - 1) % 4, (((i - 1) \div 4) + ((i - 1) % 4)) % 4)])
InvShiftRows(m) ==
  V16(LAMBDA i : m[At((i - 1) % 4, (((i - 1) \div 4) + 4 - ((i - 1) % 4)) % 4)])

MixColumns(m) ==
  V16(LAMBDA i :
     LET c  == (i - 1) \div 4
         r  == (i - 1) % 4
         a0 == m[At(r, c)]
         a1 == m[At((r + 1) % 4, c)]
         a2 == m[At((r + 2) % 4, c)]
         a3 == m[At((r + 3) % 4, c)]
     IN  Xor4B(Lookup(Mul2, a0), Lookup(Mul3, a1), a2, a3))

InvMixColumns(m) ==
  V16(LAMBDA i :
     LET c  == (i - 1) \div 4
         r  == (i - 1) % 4
         a0 == m[At(r, c)]
         a1 == m[At((r + 1) % 4, c)]
         a2 == m[At((r + 2) % 4, c)]
         a3 == m[At((r + 3) % 4, c)]
     IN  Xor4B(Lookup(Mul14, a0), Lookup(Mul11, a1), Lookup(Mul13, a2), Lookup(Mul9, a3)))

mm_xor_si128(a, b) == V16(LAMBDA i : XorByte(a[i], b[i]))

\* Shift left by n bytes, shifting in zeros.
mm_slli_si128(a, n) == V16(LAMBDA i : IF i > n THEN a[i - n] ELSE 0)

MM_SHUFFLE(z, y, x, w) == z * 64 + y * 16 + x * 4 + w

\* 32-bit lane j of the result is lane (imm >> 2j) & 3 of a.
mm_shuffle_epi32(a, imm) ==
  V16(LAMBDA i :
     LET j == (i - 1) \div 4
     IN  a[4 * ((imm \div (4 ^ j)) % 4) + ((i - 1) % 4) + 1])

mm_aesenc_si128(a, rk)     == mm_xor_si128(MixColumns(SubBytes(ShiftRows(a))), rk)
mm_aesenclast_si128(a, rk) == mm_xor_si128(SubBytes(ShiftRows(a)), rk)
mm_aesdec_si128(a, rk)     == mm_xor_si128(InvMixColumns(InvSubBytes(InvShiftRows(a))), rk)
mm_aesdeclast_si128(a, rk) == mm_xor_si128(InvSubBytes(InvShiftRows(a)), rk)
mm_aesimc_si128(a)         == InvMixColumns(a)

\* X1 = lane 1, X3 = lane 3 of a; the result lanes are
\* SubWord(X1), RotWord(SubWord(X1)) ^ rcon, SubWord(X3), RotWord(SubWord(X3)) ^ rcon,
\* where RotWord moves each byte one address down and rcon is zero-extended.
mm_aeskeygenassist_si128(a, rcon) ==
  V16(LAMBDA i :
     LET j    == (i - 1) \div 4
         b    == (i - 1) % 4
         base == IF j < 2 THEN 4 ELSE 12
     IN  IF j % 2 = 0
         THEN Sbox[a[base + b + 1] + 1]
         ELSE XorByte(Sbox[a[base + ((b + 1) % 4) + 1] + 1], IF b = 0 THEN rcon ELSE 0))

\* Unaligned 128-bit load / store and low-64-bit load / store at byte offset off.
mm_loadu_si128(bytes, off) == V16(LAMBDA i : bytes[off + i])
mm_loadl_epi64(bytes, off) == V16(LAMBDA i : IF i <= 8 THEN bytes[off + i] ELSE 0)

Store(st, off, m, len) ==
  [st EXCEPT !.bytes = SubSeq(@, 1, off) \o SubSeq(m, 1, len)
                          \o SubSeq(@, off + len + 1, Len(@)),
             !.written = st.written \cup ((off + 1)..(off + len))]
mm_storeu_si128(st, off, m) == Store(st, off, m, 16)
mm_storel_epi64(st, off, m) == Store(st, off, m, 8)

(* ----------------------- key schedule generators ------------------------ *)

\* KeySizeCode: the key length in 32-bit words.
KEY_128_CODE == 4
KEY_192_CODE == 6
KEY_256_CODE == 8
KeySizes == {KEY_128_CODE, KEY_192_CODE, KEY_256_CODE}

\* Round count and the byte sizes of the key and schedule types of aes.h.
Nr(sz)             == sz + 6
KeyBytes(sz)       == 4 * sz
SchedEncBytes(sz)  == 16 * (Nr(sz) + 1)
SchedFullBytes(sz) == 16 * 2 * Nr(sz)

\* The running result of one key-expansion call: the destination memory,
\* the set of byte positions the call has stored to so far, the round
\* constants it has handed to aeskeygenassist, in order, and whether the
\* call was ended by a signal instead of returning.
Call(bytes) == [bytes |-> bytes, written |-> {}, rcons |-> <<>>, fault |-> FALSE]
UseRcon(st, rcon) == [st EXCEPT !.rcons = Append(@, rcon)]

AES_KEY_EXP_ITER_FIRST4(above_words, keygen) ==
  LET a1 == mm_xor_si128(above_words, mm_slli_si128(above_words, 4))
      a2 == mm_xor_si128(a1, mm_slli_si128(a1, 8))
      kg == mm_shuffle_epi32(keygen, MM_SHUFFLE(3, 3, 3, 3))
  IN  mm_xor_si128(a2, kg)

\* ks[i] through __m128i *ks = schedule->bytes is a 16-byte access the
\* build does with an aligned move: it needs the address, addr + off
\* modulo 16 (addr the address of the schedule, off the byte offset of
\* ks[i]), to be a multiple of 16.  The schedule types are arrays of
\* uint8_t, so a caller's schedule may lie at any address.
AlignedAccess(addr, off) == (addr + off) % 16 = 0
\* The access at another address is undefined; every build of the source
\* (gcc -O0 .. -O3, -Os, with and without -mavx) ends the process there
\* with SIGSEGV.
SIGSEGV(st) == [st EXCEPT !.fault = TRUE]

\* if (full) { ks[d] = _mm_aesimc_si128(ks[e]); ... }, one <<d, e>> per line.
\* At an aligned address the accesses move the same 16 bytes as the
\* unaligned loads and stores.
RECURSIVE StoreDecKeys(_, _, _, _)
StoreDecKeys(st, addr, pairs, i) ==
  IF i > Len(pairs) THEN st
  ELSE IF ~AlignedAccess(addr, 16 * pairs[i][2]) THEN SIGSEGV(st)
  ELSE IF ~AlignedAccess(addr, 16 * pairs[i][1]) THEN SIGSEGV(st)
  ELSE StoreDecKeys(
         mm_storeu_si128(st, 16 * pairs[i][1],
                         mm_aesimc_si128(mm_loadu_si128(st.bytes, 16 * pairs[i][2]))),
         addr, pairs, i + 1)

\* case_block(THIS_CASE, NEXT_CASE, rcon) of aes128_load_key_internal:
\* element c+1 is the rcon of case c.
\* Mutant of aes128_case_rcon: case 8 repeats 0x1B.
aes128_case_rcon_repeat == <<2, 4, 8, 16, 32, 64, 128, 27, 27>>
aes128_case_rcon == <<2, 4, 8, 16, 32, 64, 128, 27, 54>>
\* Mutant of aes128_dec_keys: the last transformed key goes to ks[20], one
\* entry past the 20 of the full schedule.
aes128_dec_keys_overrun ==
  << <<11, 9>>, <<12, 8>>, <<13, 7>>, <<14, 6>>, <<15, 5>>,
     <<16, 4>>, <<17, 3>>, <<18, 2>>, <<20, 1>> >>
aes128_dec_keys ==
  << <<11, 9>>, <<12, 8>>, <<13, 7>>, <<14, 6>>, <<15, 5>>,
     <<16, 4>>, <<17, 3>>, <<18, 2>>, <<19, 1>> >>

\* From label rcon_cases_loop to the end of the switch; s is the index of
\* the round key s points to.
RECURSIVE aes128_rcon_cases_loop(_, _, _, _, _)
aes128_rcon_cases_loop(st, s, last, keygen, next_case) ==
  LET last1 == AES_KEY_EXP_ITER_FIRST4(last, keygen)
      st1   == mm_storeu_si128(st, 16 * (s + 1), last1)
  IN  IF next_case <= 8
      THEN LET rcon == aes128_case_rcon[next_case + 1]
           IN  Strict(st1, aes128_rcon_cases_loop(UseRcon(st1, rcon), s + 1, last1,
                                      mm_aeskeygenassist_si128(last1, rcon),
                                      next_case + 1))
      ELSE st1

aes128_load_key_internal(hw, key, schedule, addr, full) ==
  IF hw
  THEN LET last == mm_loadu_si128(key, 0)
           st0  == mm_storeu_si128(Call(schedule), 0, last)
           st1  == aes128_rcon_cases_loop(UseRcon(st0, 1), 0, last,
                                          mm_aeskeygenassist_si128(last, 1), 0)
       IN  IF full THEN StoreDecKeys(st1, addr, aes128_dec_keys, 1) ELSE st1
  ELSE Call(schedule)   \* C implementation: empty

aes192_case_rcon == <<2, 4, 8, 16, 32, 64>>
aes192_dec_keys ==
  << <<13, 11>>, <<14, 10>>, <<15, 9>>, <<16, 8>>, <<17, 7>>, <<18, 6>>,
     <<19, 5>>, <<20, 4>>, <<21, 3>>, <<22, 2>>, <<23, 1>> >>

\* One pass from rcon_cases_loop (top = TRUE) or from first_four
\* (top = FALSE) to the end of the switch; s is the word index s points to.
RECURSIVE aes192_rcon_cases_loop(_, _, _, _, _, _, _)
aes192_rcon_cases_loop(st, s, last_f4, last_56, keygen, next_case, top) ==
  LET subword  == mm_shuffle_epi32(mm_aeskeygenassist_si128(last_f4, 0),
                                   MM_SHUFFLE(2, 2, 2, 2))
      l56      == IF top
                  THEN mm_xor_si128(mm_xor_si128(last_56, mm_slli_si128(last_56, 4)),
                                    subword)
                  ELSE last_56
      stA      == IF top THEN mm_storel_epi64(st, 4 * s, l56) ELSE st
      sA       == IF top THEN s + 2 ELSE s
      lf4      == AES_KEY_EXP_ITER_FIRST4(last_f4, keygen)
      stB      == mm_storeu_si128(stA, 4 * sA, lf4)
      sB       == sA + 4
  IN  IF next_case <= 5
      THEN LET rcon == aes192_case_rcon[next_case + 1]
           IN  Strict(stB, aes192_rcon_cases_loop(UseRcon(stB, rcon), sB, lf4, l56,
                                      mm_aeskeygenassist_si128(l56, rcon),
                                      next_case + 1, TRUE))
      ELSE IF next_case = 6
      THEN Strict(stB, aes192_rcon_cases_loop(UseRcon(stB, 128), sB, lf4, l56,
                                  mm_aeskeygenassist_si128(l56, 128), 7, FALSE))
      ELSE stB

aes192_load_key_internal(hw, key, schedule, addr, full) ==
  IF hw
  THEN LET last_f4 == mm_loadu_si128(key, 0)
           last_56 == mm_loadl_epi64(key, 16)
           st0     == mm_storel_epi64(mm_storeu_si128(Call(schedule), 0, last_f4),
                                      16, last_56)
           st1     == aes192_rcon_cases_loop(UseRcon(st0, 1), 6, last_f4, last_56,
                                             mm_aeskeygenassist_si128(last_56, 1),
                                             0, FALSE)
       IN  IF full THEN StoreDecKeys(st1, addr, aes192_dec_keys, 1) ELSE st1
  ELSE Call(schedule)   \* C implementation: empty

aes256_case_rcon == <<2, 4, 8, 16, 32>>
aes256_dec_keys ==
  << <<15, 13>>, <<16, 12>>, <<17, 11>>, <<18, 10>>, <<19, 9>>, <<20, 8>>,
     <<21, 7>>, <<22, 6>>, <<23, 5>>, <<24, 4>>, <<25, 3>>, <<26, 2>>,
     <<27, 1>> >>

\* As for aes192; s is the index of the round key s points to.
RECURSIVE aes256_rcon_cases_loop(_, _, _, _, _, _, _)
aes256_rcon_cases_loop(st, s, a, b, keygen, next_case, top) ==
  LET subword == mm_shuffle_epi32(mm_aeskeygenassist_si128(a, 0),
                                  MM_SHUFFLE(2, 2, 2, 2))
      b1      == mm_xor_si128(b, mm_slli_si128(b, 4))
      b2      == mm_xor_si128(b1, mm_slli_si128(b1, 8))
      bN      == IF top THEN mm_xor_si128(b2, subword) ELSE b
      stA     == IF top THEN mm_storeu_si128(st, 16 * (s + 1), bN) ELSE st
      sA      == IF top THEN s + 1 ELSE s
      aN      == AES_KEY_EXP_ITER_FIRST4(a, keygen)
      stB     == mm_storeu_si128(stA, 16 * (sA + 1), aN)
      sB      == sA + 1
  IN  IF next_case <= 4
      THEN LET rcon == aes256_case_rcon[next_case + 1]
           IN  Strict(stB, aes256_rcon_cases_loop(UseRcon(stB, rcon), sB, aN, bN,
                                      mm_aeskeygenassist_si128(bN, rcon),
                                      next_case + 1, TRUE))
      ELSE IF next_case = 5
      THEN Strict(stB, aes256_rcon_cases_loop(UseRcon(stB, 64), sB, aN, bN,
                                  mm_aeskeygenassist_si128(bN, 64), 6, FALSE))
      ELSE stB

aes256_load_key_internal(hw, key, schedule, addr, full) ==
  IF hw
  THEN LET a   == mm_loadu_si128(key, 0)
           b   == mm_loadu_si128(key, 16)
           st0 == mm_storeu_si128(mm_storeu_si128(Call(schedule), 0, a), 16, b)
           st1 == aes256_rcon_cases_loop(UseRcon(st0, 1), 1, a, b,
                                         mm_aeskeygenassist_si128(b, 1), 0, FALSE)
       IN  IF full THEN StoreDecKeys(st1, addr, aes256_dec_keys, 1) ELSE st1
  ELSE Call(schedule)   \* C implementation: empty

\* aesNNN_load_key_internal for the variant with key-size code sz; schedule
\* is what the buffer holds and addr its address modulo 16.
load_key_internal(sz, hw, key, schedule, addr, full) ==
  CASE sz = KEY_128_CODE -> aes128_load_key_internal(hw, key, schedule, addr, full)
    [] sz = KEY_192_CODE -> aes192_load_key_internal(hw, key, schedule, addr, full)
    [] sz = KEY_256_CODE -> aes256_load_key_internal(hw, key, schedule, addr, full)

(* --------------------------- block transforms --------------------------- *)

\* get_key(k, i, schedule_ptr)
get_key(s, i) == mm_loadu_si128(s, 16 * i)

\* The round keys of AESnnn_ENC_BLOCK_AMD64 / AESnnn_DEC_BLOCK_AMD64 in the
\* order the macro uses them: the first is XORed in, the last goes to
\* aesenclast / aesdeclast, the others to aesenc / aesdec.
AES128_ENC_KEYS == <<0, 1, 2, 3, 4, 5, 6, 7, 8, 9, 10>>
AES192_ENC_KEYS == <<0, 1, 2, 3, 4, 5, 6, 7, 8, 9, 10, 11, 12>>
AES256_ENC_KEYS == <<0, 1, 2, 3, 4, 5, 6, 7, 8, 9, 10, 11, 12, 13, 14>>
\* Mutant of AES128_DEC_KEYS: the transformed entries in decreasing order.
AES128_DEC_KEYS_decreasing == <<10, 19, 18, 17, 16, 15, 14, 13, 12, 11, 0>>
AES128_DEC_KEYS == <<10, 11, 12, 13, 14, 15, 16, 17, 18, 19, 0>>
AES192_DEC_KEYS == <<12, 13, 14, 15, 16, 17, 18, 19, 20, 21, 22, 23, 0>>
AES256_DEC_KEYS == <<14, 15, 16, 17, 18, 19, 20, 21, 22, 23, 24, 25, 26, 27, 0>>

ENC_KEYS(sz) ==
  CASE sz = KEY_128_CODE -> AES128_ENC_KEYS
    [] sz = KEY_192_CODE -> AES192_ENC_KEYS
    [] sz = KEY_256_CODE -> AES256_ENC_KEYS
DEC_KEYS(sz) ==
  CASE sz = KEY_128_CODE -> AES128_DEC_KEYS
    [] sz = KEY_192_CODE -> AES192_DEC_KEYS
    [] sz = KEY_256_CODE -> AES256_DEC_KEYS

RECURSIVE ENC_ROUNDS(_, _, _, _)
ENC_ROUNDS(m, s, order, r) ==
  IF r = Len(order) THEN mm_aesenclast_si128(m, get_key(s, order[r]))
  ELSE LET m1 == mm_aesenc_si128(m, get_key(s, order[r]))
       IN  Strict(m1, ENC_ROUNDS(m1, s, order, r + 1))

RECURSIVE DEC_ROUNDS(_, _, _, _)
DEC_ROUNDS(m, s, order, r) ==
  IF r = Len(order) THEN mm_aesdeclast_si128(m, get_key(s, order[r]))
  ELSE LET m1 == mm_aesdec_si128(m, get_key(s, order[r]))
       IN  Strict(m1, DEC_ROUNDS(m1, s, order, r + 1))

ENC_BLOCK_AMD64(sz, m, s) ==
  ENC_ROUNDS(mm_xor_si128(m, get_key(s, ENC_KEYS(sz)[1])), s, ENC_KEYS(sz), 2)
DEC_BLOCK_AMD64(sz, m, s) ==
  DEC_ROUNDS(mm_xor_si128(m, get_key(s, DEC_KEYS(sz)[1])), s, DEC_KEYS(sz), 2)

\* Block memory is a sequence of 16-byte blocks; plain and cipher are the
\* indices of the first source and destination block.
\* while (plain < stop) { m = load(plain++); ENC_BLOCK(m, k); store(cipher++, m); }
\* Mutant of encrypt_loop: the source pointer is not advanced (plain, not plain++).
RECURSIVE encrypt_loop_stuck(_, _, _, _, _, _, _)
encrypt_loop_stuck(sz, s, mem, plain, cipher, num_blocks, i) ==
  IF i >= num_blocks THEN mem
  ELSE encrypt_loop_stuck(sz, s,
                          [mem EXCEPT ![cipher + i] = ENC_BLOCK_AMD64(sz, mem[plain], s)],
                          plain, cipher, num_blocks, i + 1)

RECURSIVE encrypt_loop(_, _, _, _, _, _, _)
encrypt_loop(sz, s, mem, plain, cipher, num_blocks, i) ==
  IF i >= num_blocks THEN mem
  ELSE encrypt_loop(sz, s,
                    [mem EXCEPT ![cipher + i] = ENC_BLOCK_AMD64(sz, mem[plain + i], s)],
                    plain, cipher, num_blocks, i + 1)

RECURSIVE decrypt_loop(_, _, _, _, _, _, _)
decrypt_loop(sz, s, mem, cipher, plain, num_blocks, i) ==
  IF i >= num_blocks THEN mem
  ELSE decrypt_loop(sz, s,
                    [mem EXCEPT ![plain + i] = DEC_BLOCK_AMD64(sz, mem[cipher + i], s)],
                    cipher, plain, num_blocks, i + 1)

\* aesNNN_encrypt_blocks / aesNNN_decrypt_blocks: the block memory after the call.
encrypt_blocks(sz, hw, schedule, mem, plain, cipher, num_blocks) ==
  IF hw THEN encrypt_loop(sz, schedule, mem, plain, cipher, num_blocks, 0)
  ELSE mem   \* C implementation: empty
decrypt_blocks(sz, hw, schedule, mem, cipher, plain, num_blocks) ==
  IF hw THEN decrypt_loop(sz, schedule, mem, cipher, plain, num_blocks, 0)
  ELSE mem   \* C implementation: empty

\* The single-block wrappers of aes.h: num_blocks = 1.
encrypt_block(sz, hw, schedule, mem, plain, cipher) ==
  encrypt_blocks(sz, hw, schedule, mem, plain, cipher, 1)
decrypt_block(sz, hw, schedule, mem, cipher, plain) ==
  decrypt_blocks(sz, hw, schedule, mem, cipher, plain, 1)

(* ------------------------------ self test ------------------------------- *)

SelfTestPlain  == <<50, 67, 246, 168, 136, 90, 48, 141, 49, 49, 152, 162, 224, 55, 7, 52>>
SelfTestKey    == <<43, 126, 21, 22, 40, 174, 210, 166, 171, 247, 21, 136, 9, 207, 79, 60>>
SelfTestCipher == <<57, 37, 132, 29, 2, 220, 9, 251, 220, 17, 133, 151, 25, 106, 11, 50>>

\* aes128_self_test calls aes128_enc and aes128_dec, which no source file
\* defines: what they do is decided by what the program is linked with.
\* Two bindings are modelled: "block", the single-block transforms
\* (expand_full -> encrypt_block -> decrypt_block), and "empty", functions
\* that return without touching their output buffer.
Linked == {"block", "empty"}
aes128_enc(linked, hw, key_schedule, mem, plain, cipher) ==
  IF linked = "block"
  THEN encrypt_block(KEY_128_CODE, hw, key_schedule, mem, plain, cipher)
  ELSE mem
aes128_dec(linked, hw, key_schedule, mem, cipher, plain) ==
  IF linked = "block"
  THEN decrypt_block(KEY_128_CODE, hw, key_schedule, mem, cipher, plain)
  ELSE mem

\* memcmp(a, b, 16) != 0
memcmp(a, b) == IF a = b THEN 0 ELSE 1

\* The locals are <<plain, cipher, computed_cipher, computed_plain>>;
\* key_schedule, computed_cipher and computed_plain start uninitialized.
\* The locals when the two memcmp calls run.  key_schedule is an array of
\* __m128i, which the compiler places at a multiple of 16.
aes128_self_test_locals(linked, hw, key_schedule, computed_cipher, computed_plain) ==
  LET ks   == aes128_load_key_internal(hw, SelfTestKey, key_schedule, 0, TRUE).bytes
      m0   == <<SelfTestPlain, SelfTestCipher, computed_cipher, computed_plain>>
      m1   == aes128_enc(linked, hw, ks, m0, 1, 3)
  IN  aes128_dec(linked, hw, ks, m1, 2, 4)

\* Mutant of aes128_self_test: the second leg assigns (out = 2) where the
\* code ors (out |= 2).
aes128_self_test_assign(linked, hw, key_schedule, computed_cipher, computed_plain) ==
  LET m2   == aes128_self_test_locals(linked, hw, key_schedule, computed_cipher, computed_plain)
      out1 == IF memcmp(SelfTestCipher, m2[3]) # 0 THEN 1 ELSE 0
  IN  IF memcmp(SelfTestPlain, m2[4]) # 0 THEN 2 ELSE out1

aes128_self_test(linked, hw, key_schedule, computed_cipher, computed_plain) ==
  LET m2   == aes128_self_test_locals(linked, hw, key_schedule, computed_cipher, computed_plain)
      out1 == IF memcmp(SelfTestCipher, m2[3]) # 0 THEN 1 ELSE 0
      out2 == IF memcmp(SelfTestPlain, m2[4]) # 0 THEN 2 ELSE 0
  IN  out1 + out2   \* out = 1; out |= 2

(* --------------------------- aes_load_key_c ----------------------------- *)

\* A uint32_t is the sequence of its 4 bytes in memory order (little endian:
\* byte 1 is the low byte).  U32(bytes, i) is word i of a word array.
U32(bytes, i) == SubSeq(bytes, 4 * i + 1, 4 * i + 4)
XorU32(a, b) == <<XorByte(a[1], b[1]), XorByte(a[2], b[2]),
                  XorByte(a[3], b[3]), XorByte(a[4], b[4])>>
\* a && 0xFF on a word, and on word >> 8, word >> 16: 1 when nonzero, else 0.
AndAnd(nonzero) == IF nonzero THEN 1 ELSE 0

\* SUB_WORD and SUBROT_WORD as the macros are written, with && and ||: the
\* subscripts are 0 or 1 (word >> 24 in the last operand), the operands are
\* tested left to right for being nonzero and the value is 0 or 1.
SUB_WORD(word) ==
  LET v == IF \/ Sbox[AndAnd(word # <<0, 0, 0, 0>>) + 1] # 0
              \/ Sbox[AndAnd(<<word[2], word[3], word[4]>> # <<0, 0, 0>>) + 1] * (2 ^ 8) # 0
              \/ Sbox[AndAnd(<<word[3], word[4]>> # <<0, 0>>) + 1] * (2 ^ 16) # 0
              \/ Sbox[word[4] + 1] # 0
           THEN 1 ELSE 0
  IN  <<v, 0, 0, 0>>
SUBROT_WORD(word) ==
  LET v == IF \/ Sbox[AndAnd(word # <<0, 0, 0, 0>>) + 1] * (2 ^ 8) # 0
              \/ Sbox[AndAnd(<<word[2], word[3], word[4]>> # <<0, 0, 0>>) + 1] * (2 ^ 16) # 0
              \/ Sbox[AndAnd(<<word[3], word[4]>> # <<0, 0>>) + 1] # 0
              \/ Sbox[word[4] + 1] # 0
           THEN 1 ELSE 0
  IN  <<v, 0, 0, 0>>

\* The locals of aes_load_key_c: w = <<w1, ..., w8>>, last, rcon (its top
\* byte; the other three are 0), dst (a word index into schedule), and out,
\* the schedule with the bytes stored and the round constants used so far.
StoreWord(c, word) ==
  [c EXCEPT !.out = Store(@, 4 * c.dst, word, 4), !.dst = @ + 1]

\* Label aes128_case_block up to its break.
aes128_case_block(c) ==
  LET w1 == XorU32(c.w[1], XorU32(SUBROT_WORD(c.last), <<0, 0, 0, c.rcon>>))
      w2 == XorU32(c.w[2], w1)
      w3 == XorU32(c.w[3], w2)
      w4 == XorU32(c.w[4], w3)
      c4 == StoreWord(StoreWord(StoreWord(StoreWord(c, w1), w2), w3), w4)
  IN  [c4 EXCEPT !.w = <<w1, w2, w3, w4, @[5], @[6], @[7], @[8]>>,
                 !.last = w4,
                 !.out = UseRcon(@, c.rcon)]

\* case 0 of the switch, which falls through into case 1.
aes256_case(c) ==
  LET w5 == XorU32(c.w[5], SUB_WORD(c.w[4]))
      w6 == XorU32(c.w[6], w5)
      w7 == XorU32(c.w[7], w6)
      w8 == XorU32(c.w[8], w7)
      c4 == StoreWord(StoreWord(StoreWord(StoreWord(c, w5), w6), w7), w8)
  IN  aes128_case_block([c4 EXCEPT !.w = <<@[1], @[2], @[3], @[4], w5, w6, w7, w8>>,
                                   !.last = w8])

\* case 2 of the switch, which jumps to aes128_case_block.
aes192_case(c) ==
  LET w5 == XorU32(c.w[5], SUB_WORD(c.w[4]))
      w6 == XorU32(c.w[6], w5)
      c2 == StoreWord(StoreWord(c, w5), w6)
  IN  aes128_case_block([c2 EXCEPT !.w = <<@[1], @[2], @[3], @[4], w5, w6, @[7], @[8]>>,
                                   !.last = w6])

\* while (iterations--) { rcon <<= 1; switch (enc_key_case) ... } and the
\* "2 more iterations for aes 128" after it, whose gotos lead back into the
\* loop body.  iterations is a uint8_t: the failing test leaves it at 255.
RECURSIVE while_iterations(_, _, _, _)
RECURSIVE more_iterations(_, _, _, _)
while_iterations(c, iterations, enc_key_case, key_case) ==
  IF iterations = 0
  THEN more_iterations(c, 255, enc_key_case, key_case)
  ELSE LET c1 == [c EXCEPT !.rcon = (2 * @) % 256]
           c2 == CASE enc_key_case = 0 -> aes256_case(c1)
                   [] enc_key_case = 1 -> aes128_case_block(c1)
                   [] enc_key_case = 2 -> aes192_case(c1)
       IN  Strict(c2, while_iterations(c2, iterations - 1, enc_key_case, key_case))
more_iterations(c, iterations, enc_key_case, key_case) ==
  IF key_case = KEY_128_CODE
  THEN CASE iterations = 0 ->
              while_iterations(aes128_case_block([c EXCEPT !.rcon = 27]), 1,
                               enc_key_case, key_case)
         [] iterations = 1 ->
              while_iterations(aes128_case_block([c EXCEPT !.rcon = 54]), 2,
                               enc_key_case, key_case)
         [] OTHER -> c
  ELSE c

\* key and schedule are byte buffers of keysize and of 4*(Nr+1) or 8*Nr
\* words.  Nothing follows if (!full) return; but two unused locals.
aes_load_key_c(key, schedule, keysize, full) ==
  LET key_case      == (keysize \div 2) - 2          \* 128=0, 192=1, 256=2
      iterations    == 7 - (IF keysize = KEY_256_CODE THEN 1 ELSE 0)
      \* key_case + 1 - (((key_case != 2) - 1) & 3)
      enc_key_case  == key_case + 1 - (IF key_case # 2 THEN 0 ELSE 3)
      \* w5..w8 beyond the key are uninitialized and never read
      wk(i)         == IF i < keysize THEN U32(key, i) ELSE <<0, 0, 0, 0>>
      \* switch (copy_key_case): the keysize key words, last to first
      copied        == Store(Call(schedule), 0, key, 4 * keysize)
      c             == [w    |-> <<wk(0), wk(1), wk(2), wk(3), wk(4), wk(5), wk(6), wk(7)>>,
                        last |-> U32(key, keysize - 1),
                        rcon |-> 1,                  \* 0x01000000UL
                        dst  |-> keysize,
                        out  |-> copied]
  IN  \* goto aes128_case_block;
      while_iterations(aes128_case_block(c), iterations, enc_key_case, key_case).out

(* ------------------------- capability detector -------------------------- *)

\* (x >> n) & 1
ShiftAnd1(x, n) == (x \div (2 ^ n)) % 2

\* Mutant of startup: either feature bit is enough (aes || sse2).
startup_any_feature(cpu) ==
  LET nIds_ == cpu.maxLeaf
      ecx   == IF nIds_ >= 1 THEN cpu.ecx ELSE 0
      edx   == IF nIds_ >= 1 THEN cpu.edx ELSE 0
      aes   == ShiftAnd1(ecx, 25) # 0
      sse2  == ShiftAnd1(edx, 26) # 0
  IN  aes \/ sse2

\* startup(): cpu.maxLeaf is EAX of CPUID leaf 0, cpu.ecx and cpu.edx are the
\* registers of leaf 1.  The value stored to hardware.aes.
startup(cpu) ==
  LET nIds_ == cpu.maxLeaf
      ecx   == IF nIds_ >= 1 THEN cpu.ecx ELSE 0
      edx   == IF nIds_ >= 1 THEN cpu.edx ELSE 0
      aes   == ShiftAnd1(ecx, 25) # 0
      sse2  == ShiftAnd1(edx, 26) # 0
  IN  aes /\ sse2

(* ------------------------------ the inputs ------------------------------ *)

\* Largest batch length tried.
MaxBatch == 2

\* Processors: leaf 0 only (its leaf-1 registers are never read), AES
\* without SSE2 (a neighbouring EDX bit set), SSE2 without AES (a
\* neighbouring ECX bit set), and both.
CPUs ==
  { [maxLeaf |-> 0,  ecx |-> 2 ^ 25,          edx |-> 2 ^ 26],
    [maxLeaf |-> 1,  ecx |-> 2 ^ 25,          edx |-> 2 ^ 25],
    [maxLeaf |-> 1,  ecx |-> 2 ^ 26,          edx |-> 2 ^ 26],
    [maxLeaf |-> 13, ecx |-> 2 ^ 25 + 2 ^ 0,  edx |-> 2 ^ 26 + 2 ^ 25] }

\* What memory nobody initialized may hold: byte i of pattern g.
JunkSeeds == {0, 165}
BlockJunkSeeds == {165}
JunkByte(g, i) == (g * (i + 1)) % 256
JunkBlock(g, b) == V16(LAMBDA i : JunkByte(g, 16 * b + i))
RECURSIVE JunkBlocks(_, _)
JunkBlocks(g, n) == IF n = 0 THEN <<>> ELSE Append(JunkBlocks(g, n - 1), JunkBlock(g, n - 1))
RECURSIVE Flatten(_)
Flatten(blocks) == IF blocks = <<>> THEN <<>> ELSE Head(blocks) \o Flatten(Tail(blocks))
JunkBytes(g, n) == Flatten(JunkBlocks(g, n \div 16))

\* Where a caller's schedule buffer lies, modulo 16: the schedule types have
\* alignment 1, so any address is possible; 0 is a 16-byte aligned one.
SchedAddrs == {0, 1}

\* Two keys per key size: the self-test key (continued) and 00 01 02 ...
KeyIds == {1, 2}
KeyMaterial(k) ==
  IF k = 1
  THEN SelfTestKey \o <<118, 46, 113, 96, 243, 139, 16, 140,
                        9, 20, 223, 244, 82, 44, 107, 123>>
  ELSE <<0, 1, 2, 3, 4, 5, 6, 7, 8, 9, 10, 11, 12, 13, 14, 15,
         16, 17, 18, 19, 20, 21, 22, 23, 24, 25, 26, 27, 28, 29, 30, 31>>
Key(sz, k) == SubSeq(KeyMaterial(k), 1, KeyBytes(sz))

\* The caller's plaintext blocks.
PlainBlock(b) ==
  IF b = 1 THEN SelfTestPlain ELSE V16(LAMBDA i : (29 * b + 17 * i) % 256)
RECURSIVE PlainBlocks(_)
PlainBlocks(n) == IF n = 0 THEN <<>> ELSE Append(PlainBlocks(n - 1), PlainBlock(n))

\* Block memory: buffer A (blocks 1..MaxBatch) and buffer B after it.
BufB == MaxBatch + 1
OtherBuf(b) == IF b = 1 THEN BufB ELSE 1

(* --------------------------- the state machine -------------------------- *)

VARIABLES
  cpu,        \* the processor's CPUID answers
  pc,         \* "boot" before the startup initializer, "run" after it,
              \* "tested" after aes128_self_test, "expanded" after
              \* aes_load_key_c, "killed" once a signal has ended the process
  hardware,   \* hardware.aes
  flagWrites, \* number of stores to hardware.aes so far
  sz,         \* key-size code of the AES variant the process uses
  junk,       \* what the uninitialized buffers hold at start
  schedE,     \* an aesNNN_sched_enc_t buffer
  schedF,     \* an aesNNN_sched_full_t buffer
  loadE,      \* the load_key_enc_only call on schedE: key id (0: none yet),
              \* bytes written, round constants used
  loadF,      \* the load_key call on schedF, likewise (up to the signal
              \* when pc = "killed")
  mem,        \* the block buffers A and B
  stage,      \* "plain", "cipher" after encrypt_blocks, "done" after decrypt_blocks
  encCall,    \* the encrypt_blocks call: num_blocks and first destination block
  decCall,    \* the decrypt_blocks call: num_blocks, first source and
              \* destination block, block memory before the call
  loadC,      \* the aes_load_key_c call: key id (0: none yet), bytes written,
              \* round constants used, the schedule it left
  selfTest,   \* the value aes128_self_test returned (-1: not called)
  selfTestLocals \* its locals <<plain, cipher, computed_cipher, computed_plain>>
              \* when it returned (<<>>: not called)

vars == <<cpu, pc, hardware, flagWrites, sz, junk, schedE, schedF, loadE, loadF,
          loadC, mem, stage, encCall, decCall, selfTest, selfTestLocals>>

NoLoad == [key |-> 0, written |-> {}, rcons |-> <<>>]
InitMem(g) == PlainBlocks(MaxBatch) \o JunkBlocks(g, MaxBatch)

Init ==
  /\ cpu \in CPUs
  /\ pc = "boot"
  /\ hardware = FALSE
  /\ flagWrites = 0
  /\ sz \in KeySizes
  /\ junk \in [E : JunkSeeds, F : JunkSeeds, B : BlockJunkSeeds]
  /\ schedE = JunkBytes(junk.E, SchedEncBytes(sz))
  /\ schedF = JunkBytes(junk.F, SchedFullBytes(sz))
  /\ loadE = NoLoad
  /\ loadF = NoLoad
  /\ loadC = [key |-> 0, written |-> {}, rcons |-> <<>>, bytes |-> <<>>]
  /\ mem = InitMem(junk.B)
  /\ stage = "plain"
  /\ encCall = [n |-> 0, dst |-> 0]
  /\ decCall = [n |-> 0, src |-> 0, dst |-> 0, pre |-> <<>>]
  /\ selfTest = -1
  /\ selfTestLocals = <<>>

\* Mutant of Startup: the probe is not once-only, it runs again after boot.
StartupAgain ==
  /\ pc \in {"boot", "run"}
  /\ flagWrites < 3
  /\ hardware' = startup(cpu)
  /\ flagWrites' = flagWrites + 1
  /\ pc' = "run"
  /\ UNCHANGED <<cpu, sz, junk, schedE, schedF, loadE, loadF, mem, stage,
                 encCall, decCall, selfTest, selfTestLocals,
                 loadC>>

\* INITIALIZER(startup): runs once, before main.
Startup ==
  /\ pc = "boot"
  /\ hardware' = startup(cpu)
  /\ flagWrites' = flagWrites + 1
  /\ pc' = "run"
  /\ UNCHANGED <<cpu, sz, junk, schedE, schedF, loadE, loadF, mem, stage,
                 encCall, decCall, selfTest, selfTestLocals,
                 loadC>>

\* aesNNN_load_key_enc_only(key, &schedE), with schedE at address addr
\* modulo 16.
LoadKeyEncOnly(k, addr) ==
  /\ pc = "run" /\ stage = "plain" /\ loadE.key = 0
  /\ LET st == load_key_internal(sz, hardware, Key(sz, k), schedE, addr, FALSE)
     IN  /\ schedE' = st.bytes
         /\ loadE' = [key |-> k, written |-> st.written, rcons |-> st.rcons]
         /\ pc' = IF st.fault THEN "killed" ELSE pc
  /\ UNCHANGED <<cpu, hardware, flagWrites, sz, junk, schedF, loadF, mem,
                 stage, encCall, decCall, selfTest, selfTestLocals,
                 loadC>>

\* aesNNN_load_key(key, &schedF), with schedF at address addr modulo 16.
\* The call returns, or a signal ends the process inside it.
LoadKey(k, addr) ==
  /\ pc = "run" /\ stage = "plain" /\ loadF.key = 0
  /\ LET st == load_key_internal(sz, hardware, Key(sz, k), schedF, addr, TRUE)
     IN  /\ schedF' = st.bytes
         /\ loadF' = [key |-> k, written |-> st.written, rcons |-> st.rcons]
         /\ pc' = IF st.fault THEN "killed" ELSE pc
  /\ UNCHANGED <<cpu, hardware, flagWrites, sz, junk, schedE, loadE, mem,
                 stage, encCall, decCall, selfTest, selfTestLocals,
                 loadC>>

\* aesNNN_encrypt_blocks(&schedE, A, dst, n), dst = A (in place) or B.
EncryptBlocks(n, dst) ==
  /\ pc = "run" /\ stage = "plain"
  /\ mem' = encrypt_blocks(sz, hardware, schedE, mem, 1, dst, n)
  /\ encCall' = [n |-> n, dst |-> dst]
  /\ stage' = "cipher"
  /\ UNCHANGED <<cpu, pc, hardware, flagWrites, sz, junk, schedE, schedF, loadE,
                 loadF, decCall, selfTest, selfTestLocals,
                 loadC>>

\* aesNNN_decrypt_blocks(&schedF, src, dst, n), src the buffer encrypt_blocks
\* wrote to, dst = src (in place) or the other buffer.
DecryptBlocks(n, dst) ==
  /\ pc = "run" /\ stage = "cipher"
  /\ mem' = decrypt_blocks(sz, hardware, schedF, mem, encCall.dst, dst, n)
  /\ decCall' = [n |-> n, src |-> encCall.dst, dst |-> dst, pre |-> mem]
  /\ stage' = "done"
  /\ UNCHANGED <<cpu, pc, hardware, flagWrites, sz, junk, schedE, schedF, loadE,
                 loadF, encCall, selfTest, selfTestLocals,
                 loadC>>

\* What an uninitialized 16-byte local may hold: a junk pattern, or by
\* chance the very bytes it is compared with.
StackBlocks(g, b, expected) == {JunkBlock(g, b), expected}

\* aes128_self_test(), with whatever its uninitialized locals hold and
\* whatever aes128_enc / aes128_dec are linked to.
SelfTest ==
  /\ pc = "run" /\ stage = "plain" /\ loadE.key = 0 /\ loadF.key = 0
  /\ \E g \in JunkSeeds, linked \in Linked :
       \E cc \in StackBlocks(g, 0, SelfTestCipher), cp \in StackBlocks(g, 1, SelfTestPlain) :
         LET ks == JunkBytes(g, SchedFullBytes(KEY_128_CODE))
         IN  /\ selfTest' = aes128_self_test(linked, hardware, ks, cc, cp)
             /\ selfTestLocals' = aes128_self_test_locals(linked, hardware, ks, cc, cp)
  /\ pc' = "tested"
  /\ UNCHANGED <<cpu, hardware, flagWrites, sz, junk, schedE, schedF, loadE,
                 loadF, mem, stage, encCall, decCall, loadC>>

\* aes_load_key_c(key, schedule, keysize, full), into a buffer of its own.
\* The routine reads and writes nothing the other operations use.
LoadKeyC(k, full) ==
  /\ pc = "run" /\ stage = "plain" /\ loadE.key = 0 /\ loadF.key = 0
  /\ \E g \in JunkSeeds :
       LET size  == IF full THEN SchedFullBytes(sz) ELSE SchedEncBytes(sz)
           st    == aes_load_key_c(Key(sz, k), JunkBytes(g, size), sz, full)
       IN  loadC' = [key |-> k, written |-> st.written, rcons |-> st.rcons,
                     bytes |-> st.bytes]
  /\ pc' = "expanded"
  /\ UNCHANGED <<cpu, hardware, flagWrites, sz, junk, schedE, schedF, loadE,
                 loadF, mem, stage, encCall, decCall, selfTest, selfTestLocals>>

Next ==
  \/ Startup
  \/ \E k \in KeyIds, addr \in SchedAddrs : LoadKeyEncOnly(k, addr)
  \/ \E k \in KeyIds, addr \in SchedAddrs : LoadKey(k, addr)
  \/ \E n \in 0..MaxBatch, dst \in {1, BufB} : EncryptBlocks(n, dst)
  \/ \E n \in 0..MaxBatch, dst \in {1, BufB} : DecryptBlocks(n, dst)
  \/ SelfTest
  \/ \E k \in KeyIds, full \in BOOLEAN : LoadKeyC(k, full)

Spec == Init /\ [][Next]_vars

(* ------------------------------ the claims ------------------------------ *)

\* The full expansion has returned (no signal ended it).
ReturnedF == loadF.key # 0 /\ pc # "killed"

\* What the buffers held before the calls, and block memory after encrypt_blocks.
PriorE == JunkBytes(junk.E, SchedEncBytes(sz))
PriorF == JunkBytes(junk.F, SchedFullBytes(sz))
MemBeforeEnc == InitMem(junk.B)
MemAfterEnc  == IF stage = "cipher" THEN mem ELSE decCall.pre
RoundKey(s, i) == SubSeq(s, 16 * i + 1, 16 * i + 16)
Min(a, b) == IF a <= b THEN a ELSE b

\* C1: the software path and the hardware path give the same schedule bytes
\* and the same output blocks on the same inputs: what each call of this
\* process produced is what the other path produces from the same inputs.
C1_PathsBitExact ==
  /\ loadE.key # 0 =>
       schedE = load_key_internal(sz, ~hardware, Key(sz, loadE.key), PriorE, 0, FALSE).bytes
  /\ ReturnedF =>
       schedF = load_key_internal(sz, ~hardware, Key(sz, loadF.key), PriorF, 0, TRUE).bytes
  /\ stage # "plain" =>
       MemAfterEnc = encrypt_blocks(sz, ~hardware, schedE, MemBeforeEnc, 1,
                                    encCall.dst, encCall.n)
  /\ stage = "done" =>
       mem = decrypt_blocks(sz, ~hardware, schedF, decCall.pre, decCall.src,
                            decCall.dst, decCall.n)

\* C2: round trip: with schedE the encryption-only and schedF the full
\* expansion of the same key, decrypting what was encrypted gives back every
\* plaintext block that went through both calls.
C2_RoundTrip ==
  (stage = "done" /\ loadE.key # 0 /\ loadF.key = loadE.key) =>
     \A i \in 0..(Min(encCall.n, decCall.n) - 1) :
        mem[decCall.dst + i] = PlainBlock(i + 1)

\* C3: the known-answer vector encrypts and decrypts as expected, so
\* aes128_self_test returns 0.
C3_SelfTestReturnsZero == pc = "tested" => selfTest = 0

\* C4: when key expansion returns, the call has written every byte of round
\* keys 0..Nr (176/208/240 bytes), and in the full shape every byte of all
\* 2*Nr round keys (320/384/448 bytes).
C4_AllRoundKeysWritten ==
  /\ loadE.key # 0 => (1..SchedEncBytes(sz)) \subseteq loadE.written
  /\ ReturnedF => (1..SchedFullBytes(sz)) \subseteq loadF.written

\* C5: full-schedule layout: entries 0..Nr are the encryption-only schedule
\* of the same key, and entry Nr+j is InvMixColumns of round key Nr-j for
\* every j in 1..Nr-1.
C5_FullScheduleLayout ==
  ReturnedF =>
    /\ loadE.key = loadF.key => SubSeq(schedF, 1, SchedEncBytes(sz)) = schedE
    /\ \A j \in 1..(Nr(sz) - 1) :
         RoundKey(schedF, Nr(sz) + j) = InvMixColumns(RoundKey(schedF, Nr(sz) - j))
    /\ Len(schedF) = SchedFullBytes(sz)

\* C6: determinism: the schedule a key expands to does not depend on what
\* the destination buffer held before: expanding the same key into a buffer
\* with any other prior content gives the same bytes.
C6_ScheduleDependsOnKeyOnly ==
  \A g \in JunkSeeds :
    /\ loadE.key # 0 =>
         schedE = load_key_internal(sz, hardware, Key(sz, loadE.key),
                                    JunkBytes(g, SchedEncBytes(sz)), 0, FALSE).bytes
    /\ ReturnedF =>
         schedF = load_key_internal(sz, hardware, Key(sz, loadF.key),
                                    JunkBytes(g, SchedFullBytes(sz)), 0, TRUE).bytes

\* C7: batch/single consistency: right after encrypt_blocks (decrypt_blocks)
\* of n blocks, destination block i holds what the single-block call on
\* source block i leaves there, for every i < n, and no other block has
\* changed (none at all for n = 0).
C7_BatchEqualsSingle ==
  /\ stage = "cipher" =>
       /\ \A i \in 0..(encCall.n - 1) :
            mem[encCall.dst + i] =
              encrypt_block(sz, hardware, schedE, MemBeforeEnc, 1 + i,
                            encCall.dst + i)[encCall.dst + i]
       /\ \A b \in 1..Len(mem) :
            (b < encCall.dst \/ b >= encCall.dst + encCall.n) =>
               mem[b] = MemBeforeEnc[b]
  /\ stage = "done" =>
       /\ \A i \in 0..(decCall.n - 1) :
            mem[decCall.dst + i] =
              decrypt_block(sz, hardware, schedF, decCall.pre, decCall.src + i,
                            decCall.dst + i)[decCall.dst + i]
       /\ \A b \in 1..Len(mem) :
            (b < decCall.dst \/ b >= decCall.dst + decCall.n) =>
               mem[b] = decCall.pre[b]

\* C7 witness: on the hardware path, loaded schedules, a batch of more than
\* one block encrypted and then decrypted.
C7_Witness ==
  /\ hardware /\ stage = "done" /\ loadE.key # 0 /\ loadF.key # 0
  /\ encCall.n > 1 /\ decCall.n > 1
  /\ MemAfterEnc[encCall.dst] # MemAfterEnc[encCall.dst + 1]

\* C8: in-place aliasing: a call whose destination is its source leaves in
\* the buffer what the same call with a disjoint destination buffer leaves
\* in that destination.
C8_InPlaceEqualsDisjoint ==
  /\ (stage # "plain" /\ encCall.dst = 1) =>
       \A i \in 0..(encCall.n - 1) :
          MemAfterEnc[1 + i] =
            encrypt_blocks(sz, hardware, schedE, MemBeforeEnc, 1, BufB,
                           encCall.n)[BufB + i]
  /\ (stage = "done" /\ decCall.dst = decCall.src) =>
       \A i \in 0..(decCall.n - 1) :
          mem[decCall.dst + i] =
            decrypt_blocks(sz, hardware, schedF, decCall.pre, decCall.src,
                           OtherBuf(decCall.src), decCall.n)[OtherBuf(decCall.src) + i]

\* Some key-expansion, block-transform or self-test call has been made.
Called ==
  \/ loadE.key # 0 \/ loadF.key # 0 \/ stage # "plain" \/ selfTest # -1
  \/ loadC.key # 0

\* C9: hardware.aes is written exactly once, by the startup initializer,
\* before any key-expansion, block-transform or self-test call, and no such
\* call writes it.
C9_FlagWrittenOnceAtStartup ==
  /\ [](pc = "boot" => (flagWrites = 0 /\ ~Called))
  /\ [](pc # "boot" => flagWrites = 1)
  /\ [][pc # "boot" => (hardware' = hardware /\ flagWrites' = flagWrites)]_vars
  /\ [][pc = "boot" => (pc' = "run" /\ flagWrites' = 1)]_vars

\* C9 witness: the flag was written once and calls of every kind have run.
C9_Witness ==
  /\ pc = "run" /\ flagWrites = 1 /\ hardware
  /\ loadE.key # 0 /\ loadF.key # 0 /\ stage = "done"

\* Bit b of a register value is set.
BitSet(x, b) == (x \div (2 ^ b)) % 2 = 1

\* C10: after startup the flag is true exactly when the highest basic CPUID
\* leaf is at least 1 and leaf 1 reports both AES (ECX bit 25) and SSE2
\* (EDX bit 26); startup always completes.
C10_FlagIffAesAndSse2 ==
  /\ pc # "boot" =>
       (hardware <=> (/\ cpu.maxLeaf >= 1
                      /\ BitSet(cpu.ecx, 25)
                      /\ BitSet(cpu.edx, 26)))
  /\ pc = "boot" => ENABLED Startup

\* C10 witness: a processor with both features, after startup.
C10_Witness == pc = "run" /\ hardware /\ cpu.maxLeaf >= 1

\* C11: aes128_self_test returns a value in 0..3; bit 0 is set exactly when
\* computed_cipher differs from the expected ciphertext, bit 1 exactly when
\* computed_plain differs from the fixed plaintext, each leg on its own.
C11_SelfTestResultBits ==
  pc = "tested" =>
    /\ selfTest \in 0..3
    /\ (selfTest % 2 = 1) <=> (selfTestLocals[3] # SelfTestCipher)
    /\ ((selfTest \div 2) % 2 = 1) <=> (selfTestLocals[4] # SelfTestPlain)
    /\ selfTestLocals[1] = SelfTestPlain /\ selfTestLocals[2] = SelfTestCipher

\* C11 witness: the encryption leg alone has failed.
C11_Witness ==
  /\ pc = "tested" /\ selfTest = 1
  /\ selfTestLocals[3] # SelfTestCipher /\ selfTestLocals[4] = SelfTestPlain

\* The number of blocks each of the caller's buffers A and B holds.
BlocksAvailable == MaxBatch

\* C12: a batch-transform call whose block count does not match the number
\* of available blocks is rejected before any output block is written: block
\* memory after the call is block memory before it.
C12_MalformedInputRejected ==
  /\ (stage # "plain" /\ encCall.n # BlocksAvailable) => MemAfterEnc = MemBeforeEnc
  /\ (stage = "done" /\ decCall.n # BlocksAvailable) => mem = decCall.pre

\* The key-expansion recurrence the schedule words are held against.  Word i
\* of a schedule is its bytes 4i+1 .. 4i+4, in memory order.
Word(s, i) == SubSeq(s, 4 * i + 1, 4 * i + 4)
XorWord(a, b) == <<XorByte(a[1], b[1]), XorByte(a[2], b[2]),
                   XorByte(a[3], b[3]), XorByte(a[4], b[4])>>
RotWord(w) == <<w[2], w[3], w[4], w[1]>>
SubWord(w) == <<Sbox[w[1] + 1], Sbox[w[2] + 1], Sbox[w[3] + 1], Sbox[w[4] + 1]>>
Rcon == <<1, 2, 4, 8, 16, 32, 64, 128, 27, 54>>
RconWord(j) == <<Rcon[j], 0, 0, 0>>
Temp(s, i, key_words) ==
  IF i % key_words = 0
    THEN XorWord(SubWord(RotWord(Word(s, i - 1))), RconWord(i \div key_words))
  ELSE IF key_words = 8 /\ i % key_words = 4
    THEN SubWord(Word(s, i - 1))
  ELSE Word(s, i - 1)
Recurrence(s, key, key_words, words) ==
  /\ SubSeq(s, 1, 4 * key_words) = key
  /\ \A i \in key_words..(words - 1) :
       Word(s, i) = XorWord(Word(s, i - key_words), Temp(s, i, key_words))

\* C13: on the hardware path the words w[0..51] of an AES-192 schedule are
\* the key words followed by the key_words = 6 recurrence: SubWord and the
\* round constant only at i mod 6 = 0, each computed from w[i-1].
C13_Aes192Recurrence ==
  (hardware /\ sz = KEY_192_CODE) =>
    /\ loadE.key # 0 => Recurrence(schedE, Key(sz, loadE.key), 6, 52)
    /\ loadF.key # 0 => Recurrence(schedF, Key(sz, loadF.key), 6, 52)

\* C14: on the hardware path the words w[0..59] of an AES-256 schedule are
\* the key words followed by the key_words = 8 recurrence: SubWord, RotWord
\* and the round constant at i mod 8 = 0, SubWord alone at i mod 8 = 4, each
\* computed from w[i-1].
C14_Aes256Recurrence ==
  (hardware /\ sz = KEY_256_CODE) =>
    /\ loadE.key # 0 => Recurrence(schedE, Key(sz, loadE.key), 8, 60)
    /\ loadF.key # 0 => Recurrence(schedF, Key(sz, loadF.key), 8, 60)

\* The sequence <<a, a+1, ..., b>>.
UpTo(a, b) == [j \in 1..(b - a + 1) |-> a + j - 1]

\* Decryption of block c with schedule s, written out step by step with the
\* round keys taken in the given order: an XOR, the interior rounds, and a
\* last round without InvMixColumns.
RECURSIVE InvRoundsInOrder(_, _, _, _)
InvRoundsInOrder(st, s, order, r) ==
  IF r = Len(order)
    THEN mm_xor_si128(InvSubBytes(InvShiftRows(st)), RoundKey(s, order[r]))
  ELSE LET st1 == mm_xor_si128(InvMixColumns(InvSubBytes(InvShiftRows(st))),
                               RoundKey(s, order[r]))
       IN  Strict(st1, InvRoundsInOrder(st1, s, order, r + 1))
InvCipherInOrder(c, s, order) ==
  InvRoundsInOrder(mm_xor_si128(c, RoundKey(s, order[1])), s, order, 2)

\* The order of the claim, and the order with the two end points exchanged.
DecOrderFirst0(nr)  == <<0>> \o UpTo(nr + 1, 2 * nr - 1) \o <<nr>>
DecOrderFirstNr(nr) == <<nr>> \o UpTo(nr + 1, 2 * nr - 1) \o <<0>>
DecryptsInOrder(order) ==
  (hardware /\ stage = "done") =>
    /\ DEC_KEYS(sz) = order
    /\ \A i \in 0..(decCall.n - 1) :
         mem[decCall.dst + i] =
           InvCipherInOrder(decCall.pre[decCall.src + i], schedF, order)

\* C15 as stated: decryption (performed on the hardware path, with the
\* transformed entries of the full schedule) XORs round_key[0] first, then runs the interior
\* rounds with entries Nr+1 .. 2Nr-1 in increasing order, each once, and
\* uses round_key[Nr] in the last round.
C15_DecryptKeyOrder == DecryptsInOrder(DecOrderFirst0(Nr(sz)))

\* C15 amended: decryption (performed on the hardware path, with the
\* transformed entries of the full schedule) XORs round_key[Nr] first, then runs the interior
\* rounds with entries Nr+1 .. 2Nr-1 in increasing order, each once, and
\* uses round_key[0] in the last round.
C15_DecryptKeyOrderAmended == DecryptsInOrder(DecOrderFirstNr(Nr(sz)))

\* C15 witness: a block decrypted on the hardware path with a loaded
\* schedule, where the other order of the end points gives another block.
C15_Witness ==
  /\ hardware /\ stage = "done" /\ loadF.key # 0 /\ decCall.n > 0
  /\ mem[decCall.dst] # InvCipherInOrder(decCall.pre[decCall.src], schedF,
                                         DecOrderFirst0(Nr(sz)))

\* Encryption of block p with schedule s, written out step by step: XOR with
\* round key 0, rounds 1..nr-1 of SubBytes, ShiftRows, MixColumns,
\* AddRoundKey, and round nr without MixColumns.
RECURSIVE RoundsInOrder(_, _, _, _)
RoundsInOrder(st, s, r, nr) ==
  IF r = nr
    THEN mm_xor_si128(ShiftRows(SubBytes(st)), RoundKey(s, nr))
  ELSE LET st1 == mm_xor_si128(MixColumns(ShiftRows(SubBytes(st))), RoundKey(s, r))
       IN  Strict(st1, RoundsInOrder(st1, s, r + 1, nr))
CipherInOrder(p, s, nr) == RoundsInOrder(mm_xor_si128(p, RoundKey(s, 0)), s, 1, nr)

\* C16: encryption of a block, on either path, XORs round_key[0], then runs
\* the full round with round_key[r] for r = 1 .. Nr-1 in increasing order,
\* each once, then the round without MixColumns with round_key[Nr]: every
\* block encrypt_blocks was given holds the result of these steps.
C16_EncryptKeyOrder ==
  stage # "plain" =>
    /\ ENC_KEYS(sz) = UpTo(0, Nr(sz))
    /\ \A i \in 0..(encCall.n - 1) :
         MemAfterEnc[encCall.dst + i] =
           CipherInOrder(MemBeforeEnc[1 + i], schedE, Nr(sz))

\* rcon usage:   aes128: 10, aes192: 8, aes256 : 7
RconUses(size) ==
  CASE size = KEY_128_CODE -> 10
    [] size = KEY_192_CODE -> 8
    [] size = KEY_256_CODE -> 7

\* C17: on the hardware path one key expansion applies the first 10 / 8 / 7
\* constants of the Rcon sequence, in order and each once, and the case loop
\* then ends: the loop is over with exactly these constants used (also
\* when a signal ends the call after the loop).
C17_RconSequence ==
  /\ (hardware /\ loadE.key # 0) => loadE.rcons = SubSeq(Rcon, 1, RconUses(sz))
  /\ (hardware /\ loadF.key # 0) => loadF.rcons = SubSeq(Rcon, 1, RconUses(sz))

\* C17 witness: both expansions of a 256-bit key have returned on the
\* hardware path, after 7 round constants each.
C17_Witness ==
  /\ hardware /\ sz = KEY_256_CODE /\ loadE.key # 0 /\ ReturnedF
  /\ Len(loadE.rcons) = 7 /\ Len(loadF.rcons) = 7

\* C18: key expansion writes only inside the caller's schedule buffer: a
\* call with full = false writes only bytes of round keys 0..Nr
\* (176/208/240 bytes), a call with full = true only bytes of round keys
\* 0..2Nr-1, and the buffers keep their size.
C18_WritesInsideSchedule ==
  /\ loadE.written \subseteq 1..(16 * (Nr(sz) + 1))
  /\ loadF.written \subseteq 1..(16 * 2 * Nr(sz))
  /\ Len(schedE) = SchedEncBytes(sz)
  /\ Len(schedF) = SchedFullBytes(sz)

\* C18 witness: on the hardware path both expansions have returned and each
\* has written the last byte of its buffer's last written round key.
C18_Witness ==
  /\ hardware /\ loadE.key # 0 /\ loadF.key # 0
  /\ loadE.written # {} /\ SchedFullBytes(sz) \in loadF.written

\* C19: aes_load_key_c with keysize 4, 6 or 8 returns after writing exactly
\* 4*(Nr+1) schedule words (44 / 52 / 60) and after applying a round
\* constant exactly 10 / 8 / 7 times.
C19_PortableExpansionCounts ==
  pc = "expanded" =>
    /\ loadC.written = 1..(4 * 4 * (Nr(sz) + 1))
    /\ Len(loadC.rcons) = RconUses(sz)
====
